---- MODULE Spec2Model ----
(***************************************************************************)
(* git-stacked: the ancestry tree of a repository's local branches.        *)
(*                                                                         *)
(* The repository (a commit DAG and the local branch refs) and the         *)
(* behaviour of the merge-base oracle are the inputs, fixed by Init.  One  *)
(* run of do_it is a sequence of steps: enumerate and sort the branches,   *)
(* examine every (child, candidate) pair with the oracle, record each      *)
(* child's parent, build the children map and the roots, print the tree.   *)
(***************************************************************************)
EXTENDS Naturals, Sequences, FiniteSets

\* ------------------------------------------------------------------ bounds

\* Number of commits of the repository; commit ids (Oid) are 1..NumCommits.
NumCommits == 4

Oids == 1..NumCommits

\* The branch names a repository may use.  Two are mainline names, two are
\* not; "feature-x" is a proper prefix of "feature-x-sub".
BranchNames == {"dev", "feature-x", "feature-x-sub", "main"}

\* The bytes of each name (String comparison in Rust is bytewise).
Bytes(name) ==
    CASE name = "dev"           -> <<100, 101, 118>>
      [] name = "feature-x"     -> <<102, 101, 97, 116, 117, 114, 101, 45, 120>>
      [] name = "feature-x-sub" -> <<102, 101, 97, 116, 117, 114, 101, 45, 120, 45, 115, 117, 98>>
      [] name = "main"          -> <<109, 97, 105, 110>>

\* ------------------------------------------------------------ constants

MAINLINE_BRANCH_NAMES_ARRAY == {"main", "master", "develop", "dev", "local-dev"}

RED_START == "\\x1B[91m"
COLOR_RESET == "\\x1B[0m"
DETACHED_PREFIX_TEXT == "(detached)"

\* git2::ErrorCode values a merge_base call can fail with.
NotFound == "NotFound"
FatalCodes == {"GenericError", "Invalid"}

\* Option<T>: None is the empty sequence, Some(x) the one-element sequence.
None == <<>>
Some(x) == <<x>>

VARIABLES
    parent_edges,   \* the commit DAG: <<p, c>> when p is a parent of commit c
    refs,           \* the local branches: name -> tip Oid
    oracle,         \* "dag": merge_base answers from the DAG; "arbitrary": any answer
    pc,             \* position of do_it
    branches,       \* Vec<BranchInfo>, as do_it holds it
    child_idx,      \* outer loop of get_parent_of_relationships
    candidate_idx,  \* inner loop of get_parent_of_relationships
    current_best_parent_name,
    current_best_parent_oid,
    parent_of,      \* ParentOfMap
    children_map,   \* ChildrenMap
    roots,          \* Vec<String>
    stdout,         \* the lines printed with println!
    stderr,         \* the lines printed with eprintln!
    result,         \* <<>> while running, then <<"Ok">> or <<"Err", code>>
    last_error      \* error code of the latest merge_base call of the step just taken

vars == <<parent_edges, refs, oracle, pc, branches, child_idx, candidate_idx,
          current_best_parent_name, current_best_parent_oid, parent_of,
          children_map, roots, stdout, stderr, result, last_error>>

\* ------------------------------------------------------- the commit graph

Parents(c) == {p \in Oids : <<p, c>> \in parent_edges}

\* Commits reachable from c, c included.
RECURSIVE Ancestors(_)
Ancestors(c) == {c} \cup UNION {Ancestors(p) : p \in Parents(c)}

\* git merge-base: the common ancestors that no other common ancestor descends from.
BestCommonAncestors(a, b) ==
    LET common == Ancestors(a) \cap Ancestors(b)
    IN  {x \in common : \A y \in common : x \in Ancestors(y) => y = x}

\* The results repo.merge_base(a, b) can give: Ok(oid) or Err(code).
merge_base(a, b) ==
    IF oracle = "dag"
    THEN (IF BestCommonAncestors(a, b) = {}
          THEN {<<"Err", NotFound>>}
          ELSE {<<"Ok", x>> : x \in BestCommonAncestors(a, b)})
         \cup {<<"Err", code>> : code \in FatalCodes}
    ELSE {<<"Ok", x>> : x \in Oids}
         \cup {<<"Err", code>> : code \in FatalCodes \cup {NotFound}}

\* --------------------------------------------------------------- sorting

\* <[u8] as Ord>::cmp: lexicographic on bytes, a proper prefix is smaller.
RECURSIVE BytesLess(_, _)
BytesLess(s, t) ==
    IF t = <<>> THEN FALSE
    ELSE IF s = <<>> THEN TRUE
    ELSE IF Head(s) # Head(t) THEN Head(s) < Head(t)
    ELSE BytesLess(Tail(s), Tail(t))

StrLess(a, b) == BytesLess(Bytes(a), Bytes(b))

\* Insert x into the sorted sequence s, after the elements not greater than it.
RECURSIVE InsertName(_, _)
InsertName(x, s) ==
    IF s = <<>> THEN <<x>>
    ELSE IF StrLess(x, Head(s)) THEN <<x>> \o s
    ELSE <<Head(s)>> \o InsertName(x, Tail(s))

\* Mutant: the names are left as they come.
SortNamesNot(s) == s

\* Vec<String>::sort (stable).
RECURSIVE SortNames(_)
SortNames(s) ==
    IF s = <<>> THEN <<>>
    ELSE InsertName(s[Len(s)], SortNames(SubSeq(s, 1, Len(s) - 1)))

RECURSIVE InsertBranch(_, _)
InsertBranch(x, s) ==
    IF s = <<>> THEN <<x>>
    ELSE IF StrLess(x.name, Head(s).name) THEN <<x>> \o s
    ELSE <<Head(s)>> \o InsertBranch(x, Tail(s))

\* Mutant: the branches are left in the order of enumeration.
SortBranchesByNameNot(s) == s

\* branches.sort_by(|a, b| a.name.cmp(&b.name))
RECURSIVE SortBranchesByName(_)
SortBranchesByName(s) ==
    IF s = <<>> THEN <<>>
    ELSE InsertBranch(s[Len(s)], SortBranchesByName(SubSeq(s, 1, Len(s) - 1)))

\* The orders in which an unordered collection (the backend's branch iterator,
\* a HashMap, a HashSet) may hand out the elements of S.
Enumerations(S) ==
    {s \in [1..Cardinality(S) -> S] : \A a, b \in 1..Cardinality(S) : s[a] = s[b] => a = b}

\* ------------------------------------------------------------ the maps

EmptyMap == <<>>

\* HashMap::insert / BTreeMap entry assignment.
Insert(map, key, value) ==
    [k \in DOMAIN map \cup {key} |-> IF k = key THEN value ELSE map[k]]

\* The BranchInfo of do_it's vector at position k.
BranchAt(k) == branches[k]

\* ------------------------------------------- get_parent_of_relationships

\* Mutant: the same-tip check is left out.
SkipsCandidateNameOnly(child, potential_parent) ==
    child.name = potential_parent.name

\* `continue` of the inner loop: the child itself, or a branch at the same commit.
SkipsCandidate(child, potential_parent) ==
    child.name = potential_parent.name \/ potential_parent.oid = child.oid

\* Mutant: any common base makes the candidate an ancestor.
IsAncestorReplyAnyBase(reply, potential_parent_oid) ==
    reply[1] = "Ok"

\* Ok(base_oid) if base_oid == potential_parent_oid
IsAncestorReply(reply, potential_parent_oid) ==
    reply[1] = "Ok" /\ reply[2] = potential_parent_oid

\* Mutant: the best parent is never replaced.
MoreSpecificNever(reply, cbp_oid) == FALSE

\* Mutant: the best parent is replaced whenever the two have a common base.
MoreSpecificAnyBase(reply, cbp_oid) ==
    reply[1] = "Ok"

\* Ok(base_between_parents_oid) if base_between_parents_oid == cbp_oid:
\* the current best parent is an ancestor of the candidate.
MoreSpecific(reply, cbp_oid) ==
    reply[1] = "Ok" /\ reply[2] = cbp_oid

\* Mutant: the NotFound arm is missing.
IsFatalAlways(reply) ==
    reply[1] = "Err"

\* Err(e) that is not caught by the `e.code() == ErrorCode::NotFound` arm.
IsFatal(reply) ==
    reply[1] = "Err" /\ reply[2] # NotFound

ErrorOf(reply) == IF reply[1] = "Err" THEN Some(reply[2]) ELSE None

Resolving == pc = "resolve" /\ candidate_idx <= Len(branches)

\* The inner loop goes on to the next candidate with this best parent.
NextCandidate(best_name, best_oid, err) ==
    /\ candidate_idx' = candidate_idx + 1
    /\ current_best_parent_name' = best_name
    /\ current_best_parent_oid' = best_oid
    /\ last_error' = err
    /\ UNCHANGED <<parent_edges, refs, oracle, pc, branches, child_idx, parent_of,
                   children_map, roots, stdout, stderr, result>>

\* `return Err(Error::Git2(e))`, propagated by `?` out of do_it: every local is dropped.
ReturnErr(code) ==
    /\ pc' = "aborted"
    /\ result' = <<"Err", code>>
    /\ last_error' = Some(code)
    /\ branches' = <<>>
    /\ child_idx' = 1
    /\ candidate_idx' = 1
    /\ current_best_parent_name' = None
    /\ current_best_parent_oid' = None
    /\ parent_of' = EmptyMap
    /\ UNCHANGED <<parent_edges, refs, oracle, children_map, roots, stdout, stderr>>

\* The candidate is the child or shares its tip: no query.
SkipCandidate ==
    /\ Resolving
    /\ SkipsCandidate(BranchAt(child_idx), BranchAt(candidate_idx))
    /\ NextCandidate(current_best_parent_name, current_best_parent_oid, None)

\* The second query, between the current best parent and an ancestor candidate.
CompareWithBest(potential_parent) ==
    \E between \in merge_base(current_best_parent_oid[1], potential_parent.oid) :
        IF MoreSpecific(between, current_best_parent_oid[1])
        THEN NextCandidate(Some(potential_parent.name), Some(potential_parent.oid), None)
        ELSE IF IsFatal(between)
        THEN ReturnErr(between[2])
        ELSE NextCandidate(current_best_parent_name, current_best_parent_oid,
                           ErrorOf(between))

\* One iteration of the inner loop that queries the oracle.
ExamineCandidate ==
    /\ Resolving
    /\ ~SkipsCandidate(BranchAt(child_idx), BranchAt(candidate_idx))
    /\ LET child == BranchAt(child_idx)
           potential_parent == BranchAt(candidate_idx)
       IN  \E base \in merge_base(potential_parent.oid, child.oid) :
               IF IsAncestorReply(base, potential_parent.oid)
               THEN IF current_best_parent_name = None
                    THEN NextCandidate(Some(potential_parent.name),
                                       Some(potential_parent.oid), None)
                    ELSE IF current_best_parent_oid # Some(potential_parent.oid)
                    THEN CompareWithBest(potential_parent)
                    ELSE NextCandidate(current_best_parent_name,
                                       current_best_parent_oid, None)
               ELSE IF IsFatal(base)
               THEN ReturnErr(base[2])
               ELSE NextCandidate(current_best_parent_name, current_best_parent_oid,
                                  ErrorOf(base))

\* After the inner loop: record the child's parent, go on to the next child, and
\* return Ok(parent_of) after the last one.
RecordParent ==
    /\ pc = "resolve"
    /\ candidate_idx > Len(branches)
    /\ parent_of' = IF current_best_parent_name # None
                    THEN Insert(parent_of, BranchAt(child_idx).name,
                                current_best_parent_name[1])
                    ELSE parent_of
    /\ current_best_parent_name' = None
    /\ current_best_parent_oid' = None
    /\ candidate_idx' = 1
    /\ last_error' = None
    /\ IF child_idx = Len(branches)
       THEN pc' = "build" /\ child_idx' = 1
       ELSE pc' = "resolve" /\ child_idx' = child_idx + 1
    /\ UNCHANGED <<parent_edges, refs, oracle, branches, children_map, roots,
                   stdout, stderr, result>>

\* ---------------------------------------------- build_children_and_roots

\* children_map.entry(parent).or_default().push(child), for the pairs of
\* parent_of in the order the HashMap iterates them.
RECURSIVE PushChildren(_, _)
PushChildren(order, map) ==
    IF order = <<>> THEN EmptyMap
    ELSE LET before == PushChildren(SubSeq(order, 1, Len(order) - 1), map)
             child == order[Len(order)]
             parent == map[child]
         IN  Insert(before, parent,
                    (IF parent \in DOMAIN before THEN before[parent] ELSE <<>>)
                        \o <<child>>)

\* for children in children_map.0.values_mut() { children.sort(); }
SortChildren(map) == [parent \in DOMAIN map |-> SortNames(map[parent])]

AllBranchNames(bs) == {bs[k].name : k \in 1..Len(bs)}

\* Mutant: every branch is taken for a root.
RootNamesAll(bs, map) == AllBranchNames(bs)

\* all_branch_names.difference(&children_with_parents)
RootNames(bs, map) == AllBranchNames(bs) \ DOMAIN map

BuildChildrenAndRoots ==
    /\ pc = "build"
    /\ \E order \in Enumerations(DOMAIN parent_of) :
       \E unsorted_roots \in Enumerations(RootNames(branches, parent_of)) :
           /\ children_map' = SortChildren(PushChildren(order, parent_of))
           /\ roots' = SortNames(unsorted_roots)
    /\ pc' = "print"
    /\ last_error' = None
    /\ UNCHANGED <<parent_edges, refs, oracle, branches, child_idx, candidate_idx,
                   current_best_parent_name, current_best_parent_oid, parent_of,
                   stdout, stderr, result>>

\* ------------------------------------------------------------- print_tree

\* A printed line is the sequence of the pieces that println! concatenates.
\* The box-drawing characters of the source are written in ASCII here: corner
\* for U+2514, tee for U+251C, bar for U+2502, dash for U+2500.
LAST_CONNECTOR == "+-- "
MID_CONNECTOR == "|-- "
BLANK_SEGMENT == "    "
BAR_SEGMENT == "|   "

\* Mutant: the two connectors are exchanged.
ConnectorSwapped(is_last_child) == IF is_last_child THEN MID_CONNECTOR ELSE LAST_CONNECTOR

Connector(is_last_child) == IF is_last_child THEN LAST_CONNECTOR ELSE MID_CONNECTOR

GrandchildSegment(is_last_child) == IF is_last_child THEN BLANK_SEGMENT ELSE BAR_SEGMENT

\* The lines print_ascii_tree_recursive prints; PrintChildrenFrom is its loop
\* from the k-th child on.
RECURSIVE print_ascii_tree_recursive(_, _, _)
RECURSIVE PrintChildrenFrom(_, _, _, _)
PrintChildrenFrom(parent_branch_name, map, current_prefix, k) ==
    IF k > Len(map[parent_branch_name]) THEN <<>>
    ELSE LET child_name == map[parent_branch_name][k]
             is_last_child == k = Len(map[parent_branch_name])
         IN  <<current_prefix \o <<Connector(is_last_child), child_name>>>>
             \o print_ascii_tree_recursive(
                    child_name, map,
                    current_prefix \o <<GrandchildSegment(is_last_child)>>)
             \o PrintChildrenFrom(parent_branch_name, map, current_prefix, k + 1)

print_ascii_tree_recursive(parent_branch_name, map, current_prefix) ==
    IF parent_branch_name \in DOMAIN map
    THEN PrintChildrenFrom(parent_branch_name, map, current_prefix, 1)
    ELSE <<>>

\* Mutant: "dev" is missing from the mainline names.
IsMainlineWithoutDev(name) == name \in MAINLINE_BRANCH_NAMES_ARRAY \ {"dev"}

IsMainline(name) == name \in MAINLINE_BRANCH_NAMES_ARRAY

\* display_name of a root-level header.
DisplayName(name) ==
    IF IsMainline(name)
    THEN <<name>>
    ELSE <<RED_START, DETACHED_PREFIX_TEXT, COLOR_RESET, " ", name>>

WARNING_NO_ROOTS ==
    "Warning: Could not determine clear root(s) for branch tree. Check for unusual branch structures."

\* Header and subtree of each of the names, in order.
RECURSIVE PrintHeaders(_, _)
PrintHeaders(names, map) ==
    IF names = <<>> THEN <<>>
    ELSE <<DisplayName(Head(names))>>
         \o print_ascii_tree_recursive(Head(names), map, <<>>)
         \o PrintHeaders(Tail(names), map)

NamesOf(bs) == [k \in 1..Len(bs) |-> bs[k].name]

\* What print_tree writes: [out |-> the stdout lines, err |-> the stderr lines].
print_tree(bs, parents, map, root_names) ==
    IF root_names = <<>> /\ bs # <<>>
    THEN IF parents # EmptyMap
         THEN [out |-> [k \in 1..Len(bs) |-> <<bs[k].name>>],
               err |-> <<WARNING_NO_ROOTS>>]
         ELSE [out |-> PrintHeaders(NamesOf(bs), map), err |-> <<>>]
    ELSE [out |-> PrintHeaders(root_names, map), err |-> <<>>]

PrintTree ==
    /\ pc = "print"
    /\ stdout' = stdout \o print_tree(branches, parent_of, children_map, roots).out
    /\ stderr' = stderr \o print_tree(branches, parent_of, children_map, roots).err
    /\ pc' = "done"
    /\ result' = <<"Ok">>
    /\ last_error' = None
    /\ UNCHANGED <<parent_edges, refs, oracle, branches, child_idx, candidate_idx,
                   current_best_parent_name, current_best_parent_oid, parent_of,
                   children_map, roots>>

\* ------------------------------------------------------------------ do_it

\* get_branches, the sort by name and the early return on an empty vector.
GetBranches ==
    /\ pc = "start"
    /\ \E order \in Enumerations(DOMAIN refs) :
           branches' = SortBranchesByName(
                           [k \in 1..Len(order) |-> [name |-> order[k], oid |-> refs[order[k]]]])
    /\ IF DOMAIN refs = {}
       THEN pc' = "done" /\ result' = <<"Ok">>
       ELSE pc' = "resolve" /\ result' = result
    /\ last_error' = None
    /\ UNCHANGED <<parent_edges, refs, oracle, child_idx, candidate_idx,
                   current_best_parent_name, current_best_parent_oid, parent_of,
                   children_map, roots, stdout, stderr>>

\* ------------------------------------------------------------ the inputs

\* Commits are numbered so that parents come before children.
PossibleEdges == {e \in Oids \X Oids : e[1] < e[2]}

\* Length of the longest path from the commit down to a parentless commit.
RECURSIVE Generation(_)
Generation(c) ==
    IF Parents(c) = {} THEN 0
    ELSE LET below == {Generation(p) : p \in Parents(c)}
         IN  1 + CHOOSE g \in below : \A h \in below : h <= g

\* Commits are numbered generation by generation.  The program only compares
\* Oids for equality, and every DAG has such a numbering.
ByGeneration ==
    \A c \in Oids : c + 1 \in Oids => Generation(c) <= Generation(c + 1)

\* No parent of a commit is an ancestor of another parent of it: such an edge
\* changes no ancestry and no merge base.
Reduced ==
    \A c \in Oids : \A p, q \in Parents(c) : p \in Ancestors(q) => p = q

\* Every commit is reachable from a branch tip; a commit that is not plays no
\* part in any query.  A repository without local branches is kept.
NoGarbage ==
    DOMAIN refs = {} \/ UNION {Ancestors(refs[b]) : b \in DOMAIN refs} = Oids

Locals ==
    /\ pc = "start"
    /\ branches = <<>>
    /\ child_idx = 1
    /\ candidate_idx = 1
    /\ current_best_parent_name = None
    /\ current_best_parent_oid = None
    /\ parent_of = EmptyMap
    /\ children_map = EmptyMap
    /\ roots = <<>>
    /\ stdout = <<>>
    /\ stderr = <<>>
    /\ result = <<>>
    /\ last_error = None

\* A repository whose oracle answers from its commit DAG (and may fail).
Init ==
    /\ oracle = "dag"
    /\ parent_edges \in SUBSET PossibleEdges
    /\ Reduced
    /\ ByGeneration
    /\ \E names \in SUBSET BranchNames : refs \in [names -> Oids]
    /\ NoGarbage
    /\ Locals

\* An oracle that answers anything.  The DAG is not read; the tips are numbered
\* from 1 without gaps.
InitArbitrary ==
    /\ oracle = "arbitrary"
    /\ parent_edges = {}
    /\ \E names \in SUBSET BranchNames : refs \in [names -> Oids]
    /\ {refs[b] : b \in DOMAIN refs} = 1..Cardinality({refs[b] : b \in DOMAIN refs})
    /\ Locals

Next ==
    \/ GetBranches
    \/ SkipCandidate
    \/ ExamineCandidate
    \/ RecordParent
    \/ BuildChildrenAndRoots
    \/ PrintTree

Spec == Init /\ [][Next]_vars

SpecArbitrary == InitArbitrary /\ [][Next]_vars

\* ================================================================ claims

\* The resolver has returned: parent_of is complete.
Resolved == pc \in {"build", "print", "done"}

Tip(name) == refs[name]

StrictAncestor(a, b) == a # b /\ a \in Ancestors(b)

Unordered(a, b) == a \notin Ancestors(b) /\ b \notin Ancestors(a)

\* The other branches whose tip differs from the child's and is reachable from it.
AncestorBranches(child) ==
    {b \in DOMAIN refs : Tip(b) # Tip(child) /\ Tip(b) \in Ancestors(Tip(child))}

\* The name a printed line ends with.
LineName(line) == line[Len(line)]

\* C1: with an oracle that answers from the commit DAG, a child with no ancestor
\* branch (different tip, reachable from the child's tip) gets no entry, and
\* every other child gets a parent that is one of its ancestor branches and that
\* no other ancestor branch of the child strictly descends from.
C1_NearestAncestor ==
    Resolved =>
        \A child \in DOMAIN refs :
            IF AncestorBranches(child) = {}
            THEN child \notin DOMAIN parent_of
            ELSE /\ child \in DOMAIN parent_of
                 /\ parent_of[child] \in AncestorBranches(child)
                 /\ \A q \in AncestorBranches(child) :
                        ~StrictAncestor(Tip(parent_of[child]), Tip(q))

\* A child whose recorded parent replaced an earlier-named, less specific
\* ancestor branch, next to a branch that has no ancestor branch at all.
C1_Witness ==
    /\ pc = "done"
    /\ \E child \in DOMAIN parent_of : \E p \in AncestorBranches(child) :
           /\ StrLess(p, parent_of[child])
           /\ StrictAncestor(Tip(p), Tip(parent_of[child]))
    /\ \E lone \in DOMAIN refs : AncestorBranches(lone) = {}

\* C2 as stated: the recorded parent of a child never has an earlier-named
\* ancestor candidate of that child (distinct tip) that is unordered with it.
C2_Original ==
    Resolved =>
        \A child \in DOMAIN parent_of :
            ~\E earlier \in AncestorBranches(child) :
                /\ StrLess(earlier, parent_of[child])
                /\ Unordered(Tip(earlier), Tip(parent_of[child]))

\* C2 amended: the recorded parent of a child has an earlier-named ancestor
\* candidate unordered with it only when the recorded parent is a strict
\* descendant of some other earlier-named ancestor candidate of the child, the
\* one it replaced as more specific.  Between mutually unordered candidates the
\* first in sorted-name order is kept.
C2_FirstFoundWins ==
    Resolved =>
        \A child \in DOMAIN parent_of :
            \A earlier \in AncestorBranches(child) :
                (/\ StrLess(earlier, parent_of[child])
                 /\ Unordered(Tip(earlier), Tip(parent_of[child])))
                =>  \E replaced \in AncestorBranches(child) :
                        /\ StrLess(replaced, parent_of[child])
                        /\ StrictAncestor(Tip(replaced), Tip(parent_of[child]))

\* A child with two mutually unordered ancestor candidates whose recorded
\* parent is the earlier-named one.
C2_Witness ==
    /\ pc = "done"
    /\ \E child \in DOMAIN parent_of : \E later \in AncestorBranches(child) :
           /\ StrLess(parent_of[child], later)
           /\ Unordered(Tip(parent_of[child]), Tip(later))

\* C3: whatever the oracle answers, parent_of never maps a name to itself nor
\* to a branch with the same tip commit.
C3_NoSameTipParent ==
    \A child \in DOMAIN parent_of :
        parent_of[child] # child /\ Tip(parent_of[child]) # Tip(child)

\* Two branches at the same commit, both given a parent by an oracle that
\* answers anything.
C3_Witness ==
    /\ pc = "done"
    /\ oracle = "arbitrary"
    /\ \E a, b \in DOMAIN parent_of : a # b /\ Tip(a) = Tip(b)

\* The tips are pairwise distinct and every two of them are ordered.
IsChain ==
    /\ Cardinality(DOMAIN refs) >= 2
    /\ \A a, b \in DOMAIN refs : a # b => Tip(a) # Tip(b) /\ ~Unordered(Tip(a), Tip(b))

\* The branch right below b in a chain.
IsPredecessor(p, b) ==
    /\ StrictAncestor(Tip(p), Tip(b))
    /\ \A q \in DOMAIN refs :
           ~(StrictAncestor(Tip(p), Tip(q)) /\ StrictAncestor(Tip(q), Tip(b)))

\* C4: for a linear chain of N branches with distinct tips, every branch but
\* the oldest is mapped to its immediate predecessor, the oldest has no parent
\* (N-1 entries), and the oldest is the one root.
C4_LinearChain ==
    (Resolved /\ IsChain) =>
        /\ \A b \in DOMAIN refs :
               IF \E p \in DOMAIN refs : StrictAncestor(Tip(p), Tip(b))
               THEN b \in DOMAIN parent_of /\ IsPredecessor(parent_of[b], b)
               ELSE b \notin DOMAIN parent_of
        /\ Cardinality(DOMAIN parent_of) = Cardinality(DOMAIN refs) - 1
        /\ pc \in {"print", "done"} =>
               /\ Len(roots) = 1
               /\ \A b \in DOMAIN refs : ~StrictAncestor(Tip(b), Tip(roots[1]))

\* A chain of four branches whose name order is the reverse of the chain order.
C4_Witness ==
    /\ pc = "done"
    /\ IsChain
    /\ Cardinality(DOMAIN refs) = 4
    /\ \A a, b \in DOMAIN refs : StrLess(a, b) => StrictAncestor(Tip(b), Tip(a))

\* C5: a step in which the oracle fails with a code other than NotFound ends
\* the run with that error, the run ends in an error only so, and nothing has
\* been printed then; a NotFound answer leaves the run going and the best
\* parent as it was.
C5_OracleErrors ==
    [][/\ (last_error' # None /\ last_error'[1] # NotFound)
              => (pc' = "aborted" /\ result' = <<"Err", last_error'[1]>>)
       /\ pc' = "aborted"
              => (/\ last_error' # None
                  /\ last_error'[1] \in FatalCodes
                  /\ stdout' = <<>>)
       /\ last_error' = Some(NotFound)
              => (/\ pc' = "resolve"
                  /\ result' = <<>>
                  /\ current_best_parent_name' = current_best_parent_name
                  /\ current_best_parent_oid' = current_best_parent_oid)
      ]_vars

\* A run aborted by a query that failed with GenericError.
C5_Witness ==
    /\ pc = "aborted"
    /\ result = <<"Err", "GenericError">>
    /\ stdout = <<>>

\* No two branches have a common ancestor commit.
PairwiseUnrelated ==
    \A a, b \in DOMAIN refs : a # b => Ancestors(Tip(a)) \cap Ancestors(Tip(b)) = {}

\* The header line of a root, as section 4.3 of the design gives it.
HeaderOf(name) ==
    IF name \in {"main", "master", "develop", "dev", "local-dev"}
    THEN <<name>>
    ELSE <<RED_START, "(detached)", COLOR_RESET, " ", name>>

\* C6: when the branches are pairwise unrelated, parent_of is empty, the roots
\* are all the branch names, and the output is one header line per branch, in
\* sorted-name order.
C6_AllIsolated ==
    (pc = "done" /\ DOMAIN refs # {} /\ PairwiseUnrelated) =>
        /\ parent_of = EmptyMap
        /\ {roots[k] : k \in 1..Len(roots)} = DOMAIN refs
        /\ Len(stdout) = Cardinality(DOMAIN refs)
        /\ {LineName(stdout[k]) : k \in 1..Len(stdout)} = DOMAIN refs
        /\ \A k \in 1..Len(stdout) : stdout[k] = HeaderOf(LineName(stdout[k]))
        /\ \A k, l \in 1..Len(stdout) :
               k < l => StrLess(LineName(stdout[k]), LineName(stdout[l]))

\* Four unrelated branches, printed.
C6_Witness ==
    /\ pc = "done"
    /\ Cardinality(DOMAIN refs) = 4
    /\ PairwiseUnrelated

\* C7: a printed line carries the "(detached)" marker exactly when its branch
\* has no entry in parent_of and is not a mainline name, and the marker is then
\* the highlighted prefix of the line.
C7_DetachedMarker ==
    pc = "done" =>
        \A k \in 1..Len(stdout) :
            LET line == stdout[k]
                marked == \E t \in 1..Len(line) : line[t] = "(detached)"
                detached == /\ LineName(line) \notin DOMAIN parent_of
                            /\ LineName(line) \notin
                                   {"main", "master", "develop", "dev", "local-dev"}
            IN  /\ marked <=> detached
                /\ marked => line = <<RED_START, "(detached)", COLOR_RESET, " ",
                                      LineName(line)>>

\* An output with a mainline root, a detached root and a non-mainline child.
C7_Witness ==
    /\ pc = "done"
    /\ \E r, d, c \in DOMAIN refs :
           /\ r \notin DOMAIN parent_of /\ r \in MAINLINE_BRANCH_NAMES_ARRAY
           /\ d \notin DOMAIN parent_of /\ d \notin MAINLINE_BRANCH_NAMES_ARRAY
           /\ c \in DOMAIN parent_of /\ c \notin MAINLINE_BRANCH_NAMES_ARRAY

\* Number of parent_of steps from the branch up to its root.
RECURSIVE DepthOf(_)
DepthOf(name) == IF name \in DOMAIN parent_of THEN 1 + DepthOf(parent_of[name]) ELSE 0

\* The branch itself or the ancestor of it, in parent_of, that is at depth d.
RECURSIVE AtDepth(_, _)
AtDepth(name, d) == IF DepthOf(name) = d THEN name ELSE AtDepth(parent_of[name], d)

\* The branches strictly below the branch in parent_of.
Descendants(name) ==
    {x \in DOMAIN parent_of :
        \E d \in 0..(DepthOf(x) - 1) : AtDepth(x, d) = name}

Siblings(name) == {x \in DOMAIN parent_of : parent_of[x] = parent_of[name]}

\* No sibling has a greater name.
IsLastSibling(name) == \A x \in Siblings(name) : x = name \/ StrLess(x, name)

\* The position of the branch's line in the output.
LineOf(name) == CHOOSE k \in 1..Len(stdout) : LineName(stdout[k]) = name

\* C8: in the output, the line of a child at depth d is d-1 indentation
\* segments, a connector and the name; the connector is the last-child one
\* exactly for the last of the parent's children in name order; the k-th
\* segment is blank when the child's ancestor at depth k is a last child and a
\* vertical bar otherwise; the line is followed at once by the lines of the
\* child's descendants, and comes after its parent's line and before the lines
\* of its later-named siblings.
C8_TreeShape ==
    pc = "done" =>
        \A child \in DOMAIN parent_of :
            LET line == stdout[LineOf(child)]
                d == DepthOf(child)
            IN  /\ \E k \in 1..Len(stdout) : LineName(stdout[k]) = child
                /\ Len(line) = d + 1
                /\ line[d] = (IF IsLastSibling(child) THEN "+-- " ELSE "|-- ")
                /\ \A k \in 1..(d - 1) :
                       line[k] = (IF IsLastSibling(AtDepth(child, k))
                                  THEN "    " ELSE "|   ")
                /\ LineOf(parent_of[child]) < LineOf(child)
                /\ \A x \in Descendants(child) :
                       /\ LineOf(child) < LineOf(x)
                       /\ LineOf(x) <= LineOf(child) + Cardinality(Descendants(child))
                /\ \A later \in Siblings(child) :
                       StrLess(child, later) =>
                           LineOf(child) + Cardinality(Descendants(child)) < LineOf(later)

\* main <- feature-x <- feature-x-sub, printed as in the design's scenario.
C8_Witness ==
    /\ pc = "done"
    /\ parent_of = [n \in {"feature-x", "feature-x-sub"} |->
                        IF n = "feature-x" THEN "main" ELSE "feature-x"]
    /\ stdout = << <<"main">>,
                   <<"+-- ", "feature-x">>,
                   <<"    ", "+-- ", "feature-x-sub">> >>

\* C9: with an oracle that answers from the commit DAG and a non-empty branch
\* set, every recorded parent's tip is a strict ancestor of the child's tip,
\* the roots are not empty when print_tree is entered, and nothing is written
\* to stderr.
C9_RootsNotEmpty ==
    /\ \A child \in DOMAIN parent_of : StrictAncestor(Tip(parent_of[child]), Tip(child))
    /\ (pc \in {"print", "done"} /\ DOMAIN refs # {}) => roots # <<>>
    /\ stderr = <<>>

\* Every branch but one has a parent, and two branches share a tip.
C9_Witness ==
    /\ pc = "done"
    /\ Cardinality(DOMAIN parent_of) = 3
    /\ \E a, b \in DOMAIN refs : a # b /\ Tip(a) = Tip(b)

\* C10: a successful run prints as many lines as there are branches, and every
\* branch name ends exactly one of them.
C10_EachBranchOnce ==
    (pc = "done" /\ DOMAIN refs # {}) =>
        /\ result = <<"Ok">>
        /\ Len(stdout) = Cardinality(DOMAIN refs)
        /\ \A b \in DOMAIN refs :
               Cardinality({k \in 1..Len(stdout) : LineName(stdout[k]) = b}) = 1

\* Four branches, two of them roots and two of them children, printed.
C10_Witness ==
    /\ pc = "done"
    /\ Len(stdout) = 4
    /\ Cardinality(DOMAIN parent_of) = 2

====
